---- MODULE Spec2Model ----
(***************************************************************************)
(* Model of python/trivedi/percentileTrivedi.py: the M/M/m sizing search   *)
(* (main, compute), its acceptance test (float_le) and the closed-form     *)
(* queueing formulas (p0, pQueue, responseTimeCDF, pi0, Pm,                *)
(* avgRespTime_MMC).                                                       *)
(*                                                                         *)
(* Numbers are exact rationals <<n, d>> with d > 0 and gcd(n, d) = 1; the  *)
(* Python operators /, *, +, - and math.pow are evaluated exactly, and a   *)
(* division by zero yields the outcome ZeroDivisionError as in Python.     *)
(* IEEE-754 rounding of the 64-bit floats is not represented.              *)
(***************************************************************************)
EXTENDS Integers, Sequences, FiniteSets, TLC

(***************************************************************************)
(* Bounds of the explored inputs.                                          *)
(***************************************************************************)
MaxLam == 3
MaxMu == 2
MaxRNum == 3
MaxRDen == 3
MaxTolNum == 4
MaxM == 5
MaxT == 1

(***************************************************************************)
(* Exact rational arithmetic.                                              *)
(***************************************************************************)
Abs(i) == IF i < 0 THEN -i ELSE i

\* The primitives are functions, so that an argument is evaluated once.
Q == Int \X Int

gcd[a \in Nat, b \in Nat] == IF b = 0 THEN a ELSE gcd[b, a % b]

GCD(a, b) == gcd[a, b]

norm[n \in Int, d \in Int] ==
    LET s == IF d < 0 THEN -1 ELSE 1
        g == gcd[Abs(n), Abs(d)]
    IN  <<(s * n) \div g, (s * d) \div g>>

RNorm(n, d) == norm[n, d]

Rat(i) == <<i, 1>>
Zero == Rat(0)
One == Rat(1)

RNeg(a) == <<-a[1], a[2]>>

add[a \in Q, b \in Q] ==
    LET g == gcd[a[2], b[2]]
    IN  norm[a[1] * (b[2] \div g) + b[1] * (a[2] \div g), (a[2] \div g) * b[2]]

RAdd(a, b) == add[a, b]

RSub(a, b) == add[a, RNeg(b)]

mul[a \in Q, b \in Q] ==
    LET g1 == gcd[Abs(a[1]), b[2]]
        g2 == gcd[Abs(b[1]), a[2]]
    IN  IF a[1] = 0 \/ b[1] = 0 THEN Zero
        ELSE <<(a[1] \div g1) * (b[1] \div g2), (a[2] \div g2) * (b[2] \div g1)>>

RMul(a, b) == mul[a, b]

\* 1/a, for a # 0
inv[a \in Q] == IF a[1] > 0 THEN <<a[2], a[1]>> ELSE <<-a[2], -a[1]>>

RInv(a) == inv[a]

\* a/b, for b # 0
RDiv(a, b) == mul[a, inv[b]]

RLt(a, b) == RSub(a, b)[1] < 0
RLe(a, b) == RSub(a, b)[1] <= 0
RAbs(a) == <<Abs(a[1]), a[2]>>
RMax(a, b) == IF RLt(a, b) THEN b ELSE a

\* math.pow(a, k) for an integer k >= 0
RECURSIVE RPow(_, _)
RPow(a, k) == IF k = 0 THEN One ELSE RMul(a, RPow(a, k - 1))

\* math.factorial(k)
RECURSIVE factorial(_)
factorial(k) == IF k = 0 THEN 1 ELSE k * factorial(k - 1)

(***************************************************************************)
(* Outcomes of a call: a number, or the exception Python raises.           *)
(***************************************************************************)
Num(q) == [kind |-> "num", val |-> q]
ZeroDivisionError == [kind |-> "ZeroDivisionError", val |-> Zero]
NoValue == [kind |-> "none", val |-> Zero]

IsNum(o) == o.kind = "num"

(***************************************************************************)
(* float_le(x, y, tol): x == y or (x-y) <= max(abs(x), abs(y))*tol         *)
(***************************************************************************)
float_le_strict(x, y, e) == RLe(x, y)

float_le(x, y, e) ==
    (x = y) \/ RLe(RSub(x, y), RMul(RMax(RAbs(x), RAbs(y)), e))

(***************************************************************************)
(* p0(lam, mu, c): the loop multiplies each power by factorial(x).         *)
(***************************************************************************)
RECURSIVE p0_loop(_, _)
p0_loop(a, c) ==
    IF c = 0 THEN Zero
    ELSE RAdd(p0_loop(a, c - 1), RMul(RPow(a, c - 1), Rat(factorial(c - 1))))

p0(la, u, c) ==
    LET a == RDiv(la, u)
        cmu == RMul(Rat(c), u)
    IN  IF RSub(cmu, la) = Zero THEN ZeroDivisionError
        ELSE LET f3 == RDiv(One, Rat(factorial(c)))
                 f4 == RPow(a, c)
                 f5 == RDiv(cmu, RSub(cmu, la))
                 sum == RAdd(p0_loop(a, c), RMul(RMul(f3, f4), f5))
             IN  IF sum = Zero THEN ZeroDivisionError
                 ELSE Num(RDiv(One, sum))

(***************************************************************************)
(* pQueue(lam, mu, c)                                                      *)
(***************************************************************************)
pQueue(la, u, c) ==
    LET a == RDiv(la, u)
        f1 == RMul(Rat(c), RPow(a, c))
        f2 == Rat(factorial(c))
        f3 == RSub(Rat(c), a)
        f4 == p0(la, u, c)
    IN  IF ~IsNum(f4) THEN f4
        ELSE IF RMul(f2, f3) = Zero THEN ZeroDivisionError
        ELSE Num(RSub(One, RMul(RDiv(f1, RMul(f2, f3)), f4.val)))

(***************************************************************************)
(* pi0(lam, mu, m) and Pm(lam, mu, m)                                      *)
(***************************************************************************)
RECURSIVE pi0_loop(_, _)
pi0_loop(a, k) ==
    IF k = 0 THEN Zero
    ELSE RAdd(pi0_loop(a, k - 1), RDiv(RPow(a, k - 1), Rat(factorial(k - 1))))

pi0(la, u, k) ==
    LET rho == RDiv(la, RMul(Rat(k), u))
        mrho == RMul(Rat(k), rho)
    IN  IF RSub(One, rho) = Zero THEN ZeroDivisionError
        ELSE LET part1 == RMul(RDiv(RPow(mrho, k), Rat(factorial(k))),
                               RDiv(One, RSub(One, rho)))
                 part2 == pi0_loop(mrho, k)
             IN  IF RAdd(part1, part2) = Zero THEN ZeroDivisionError
                 ELSE Num(RDiv(One, RAdd(part1, part2)))

Pm(la, u, k) ==
    LET rho == RDiv(la, RMul(Rat(k), u))
        mrho == RMul(Rat(k), rho)
        pai0 == pi0(la, u, k)
    IN  IF ~IsNum(pai0) THEN pai0
        ELSE Num(RMul(RDiv(RPow(mrho, k),
                           RMul(Rat(factorial(k)), RSub(One, rho))),
                      pai0.val))

(***************************************************************************)
(* avgRespTime_MMC(lam, mu, m)                                             *)
(***************************************************************************)
MM1_wrong(u, rho) == RDiv(RDiv(One, u), RAdd(One, rho))

MM1(u, rho) == RDiv(RDiv(One, u), RSub(One, rho))

avgRespTime_MMC(la, u, k) ==
    LET rho == RDiv(la, RMul(Rat(k), u))
    IN  IF k = 1
        THEN IF RSub(One, rho) = Zero THEN ZeroDivisionError
             ELSE Num(MM1(u, rho))
        ELSE LET pm == Pm(la, u, k)
             IN  IF ~IsNum(pm) THEN pm
                 ELSE LET avgK == RAdd(RMul(Rat(k), rho),
                                       RMul(RDiv(rho, RSub(One, rho)), pm.val))
                      IN  Num(RDiv(avgK, la))

(***************************************************************************)
(* responseTimeCDF(lam, mu, c, t).  The two exponentials are kept symbolic:*)
(* Cdf(f1, e2, f3, e4) stands for f1*(1-exp(-e2)) + f3*(1-exp(-e4)).       *)
(***************************************************************************)
Cdf(f1, e2, f3, e4) == [kind |-> "cdf", val |-> <<f1, e2, f3, e4>>]

responseTimeCDF(la, u, k, tt) ==
    LET rho == RDiv(la, RMul(u, Rat(k)))
        pQ == pQueue(la, u, k)
        den == RSub(la, RMul(Rat(k - 1), u))
    IN  IF RLe(rho, Zero) \/ RLe(One, rho) THEN Num(Zero)
        ELSE IF ~IsNum(pQ) THEN pQ
        ELSE IF den = Zero THEN ZeroDivisionError
        ELSE LET f1 == RDiv(RAdd(RSub(la, RMul(Rat(k), u)), RMul(u, pQ.val)), den)
                 f3 == RDiv(RMul(RSub(One, pQ.val), u), den)
             IN  Cdf(f1, RMul(u, tt), f3, RMul(RSub(RMul(Rat(k), u), la), tt))

(***************************************************************************)
(* Inputs of the explored calls.                                           *)
(***************************************************************************)
Lams == {Rat(i) : i \in 1..MaxLam}
Mus == {Rat(i) : i \in 1..MaxMu}
Rs == {RNorm(n, d) : n \in 1..MaxRNum, d \in 1..MaxRDen}
Tols == {RNorm(k, 4) : k \in 0..MaxTolNum}
Cs == 1..MaxM
Ts == {Rat(i) : i \in 0..MaxT}

(***************************************************************************)
(* State: the function the caller invoked (fn) with its arguments, the     *)
(* position of the call (pc), the locals m and val of compute, the outcome *)
(* of the call (ret), and the history of the search: the functions entered *)
(* (called), the server counts at which avgRespTime_MMC was evaluated      *)
(* (evald) and the divisors 1-rho those evaluations used (divs).           *)
(***************************************************************************)
VARIABLES pc, fn, lam, mu, r, tol, c, t, m, val, ret, called, evald, divs

vars == <<pc, fn, lam, mu, r, tol, c, t, m, val, ret, called, evald, divs>>

Init ==
    /\ pc = "idle"
    /\ fn = "none"
    /\ lam = One
    /\ mu = One
    /\ r = One
    /\ tol = Zero
    /\ c = 1
    /\ t = Zero
    /\ m = 0
    /\ val = NoValue
    /\ ret = NoValue
    /\ called = {}
    /\ evald = {}
    /\ divs = {}

\* main, line 167: if(r < 1/mu)
Gate_reversed(rr, u) == RLt(RDiv(One, u), rr)

Gate(rr, u) == RLt(rr, RDiv(One, u))

\* compute, line 136: if (lam/(m*mu)) >= 1
Unstable_gt(la, u, k) == RLt(One, RDiv(la, RMul(Rat(k), u)))

Unstable(la, u, k) == RLe(One, RDiv(la, RMul(Rat(k), u)))

\* compute, line 133: m += 1
NextM_skip(k) == k + 2

NextM(k) == k + 1

\* main(lam, mu, r, tol): the gate, then the entry into compute (m = 0)
main(la, u, rr, e) ==
    /\ pc = "idle"
    /\ fn' = "main"
    /\ lam' = la /\ mu' = u /\ r' = rr /\ tol' = e
    /\ IF Gate(rr, u)
       THEN /\ pc' = "done"
            /\ ret' = Num(Rat(-1))
            /\ called' = {"main"}
       ELSE /\ pc' = "loop"
            /\ ret' = ret
            /\ called' = {"main", "compute"}
    /\ m' = 0
    /\ UNCHANGED <<c, t, val, evald, divs>>

\* compute(lam, mu, r, tol) called directly: m = 0
compute(la, u, rr, e) ==
    /\ pc = "idle"
    /\ fn' = "compute"
    /\ lam' = la /\ mu' = u /\ r' = rr /\ tol' = e
    /\ pc' = "loop"
    /\ m' = 0
    /\ called' = {"compute"}
    /\ UNCHANGED <<c, t, val, ret, evald, divs>>

\* one round of the while True loop of compute, lines 132-150
compute_iter ==
    /\ pc = "loop"
    /\ m < MaxM
    /\ LET k == NextM(m)
           v == avgRespTime_MMC(lam, mu, k)
       IN  /\ m' = k
           /\ IF Unstable(lam, mu, k)
              THEN UNCHANGED <<pc, val, ret, called, evald, divs>>
              ELSE /\ val' = v
                   /\ called' = called \cup {"avgRespTime_MMC"}
                   /\ evald' = evald \cup {k}
                   /\ divs' = divs \cup {RSub(One, RDiv(lam, RMul(Rat(k), mu)))}
                   /\ IF ~IsNum(v)
                      THEN pc' = "done" /\ ret' = v
                      ELSE IF float_le(v.val, r, tol)
                           THEN pc' = "done" /\ ret' = Num(Rat(k))
                           ELSE pc' = "loop" /\ ret' = ret
    /\ UNCHANGED <<fn, lam, mu, r, tol, c, t>>

\* a direct call avgRespTime_MMC(lam, mu, m)
call_avgRespTime_MMC(la, u, k) ==
    /\ pc = "idle"
    /\ fn' = "avgRespTime_MMC"
    /\ lam' = la /\ mu' = u /\ c' = k
    /\ ret' = avgRespTime_MMC(la, u, k)
    /\ pc' = "done"
    /\ called' = {"avgRespTime_MMC"}
    /\ UNCHANGED <<r, tol, t, m, val, evald, divs>>

\* a direct call p0(lam, mu, c)
call_p0(la, u, k) ==
    /\ pc = "idle"
    /\ fn' = "p0"
    /\ lam' = la /\ mu' = u /\ c' = k
    /\ ret' = p0(la, u, k)
    /\ pc' = "done"
    /\ called' = {"p0"}
    /\ UNCHANGED <<r, tol, t, m, val, evald, divs>>

\* a direct call responseTimeCDF(lam, mu, c, t)
call_responseTimeCDF(la, u, k, tt) ==
    /\ pc = "idle"
    /\ fn' = "responseTimeCDF"
    /\ lam' = la /\ mu' = u /\ c' = k /\ t' = tt
    /\ ret' = responseTimeCDF(la, u, k, tt)
    /\ pc' = "done"
    /\ called' = {"responseTimeCDF"}
    /\ UNCHANGED <<r, tol, m, val, evald, divs>>

Next ==
    \/ \E la \in Lams, u \in Mus, rr \in Rs, e \in Tols : main(la, u, rr, e)
    \/ \E la \in Lams, u \in Mus, rr \in Rs, e \in Tols : compute(la, u, rr, e)
    \/ compute_iter
    \/ \E la \in Lams, u \in Mus, k \in Cs : call_avgRespTime_MMC(la, u, k)
    \/ \E la \in Lams, u \in Mus, k \in Cs : call_p0(la, u, k)
    \/ \E la \in Lams, u \in Mus, k \in Cs, tt \in Ts : call_responseTimeCDF(la, u, k, tt)

Spec == Init /\ [][Next]_vars

\* the interpreter keeps running a loop that has not returned
FairSpec == Spec /\ WF_vars(compute_iter)

(***************************************************************************)
(* Properties.                                                             *)
(***************************************************************************)

\* C1: a server count returned by main is the smallest m >= 1 that is stable
\* (lam/(m*mu) < 1) and whose average response time is <= r within tol; every
\* smaller count is unstable or fails the acceptance test.
C1_MinimalServers ==
    (fn = "main" /\ pc = "done" /\ IsNum(ret) /\ ret.val # Rat(-1)) =>
        LET k == ret.val[1]
        IN  /\ k >= 1
            /\ ret.val[2] = 1
            /\ RLt(RDiv(lam, RMul(Rat(k), mu)), One)
            /\ float_le(avgRespTime_MMC(lam, mu, k).val, r, tol)
            /\ \A j \in 1..(k - 1) :
                  \/ RLe(One, RDiv(lam, RMul(Rat(j), mu)))
                  \/ ~float_le(avgRespTime_MMC(lam, mu, j).val, r, tol)

\* main returned a count that was preceded by an unstable count and by a
\* stable count that was rejected
C1_Witness ==
    /\ fn = "main" /\ pc = "done" /\ IsNum(ret) /\ ret.val[1] >= 3
    /\ 1 \notin evald
    /\ Cardinality(evald) >= 2

\* C2: when r < 1/mu, main returns -1 as a normal value before the search:
\* compute is not entered and no server count is evaluated.
C2_GateInfeasible ==
    (fn = "main" /\ RLt(r, RDiv(One, mu))) =>
        /\ pc = "done"
        /\ ret = Num(Rat(-1))
        /\ "compute" \notin called
        /\ "avgRespTime_MMC" \notin called
        /\ evald = {}
        /\ m = 0

C2_Witness ==
    fn = "main" /\ RLt(r, RDiv(One, mu)) /\ ret = Num(Rat(-1)) /\ tol # Zero

AboveServiceTime ==
    (fn \in {"main", "compute"} /\ IsNum(val)) => RLt(RDiv(One, mu), val.val)

NeverAcceptedAtServiceTime ==
    (fn = "main" /\ r = RDiv(One, mu) /\ tol = Zero) => pc = "loop"

\* C4: during a search avgRespTime_MMC is evaluated only at server counts m
\* with lam/(m*mu) < 1; the divisors 1-rho and m*mu-lam of those evaluations
\* are positive and no evaluation divides by zero.
C4_StableOnly ==
    (fn \in {"main", "compute"}) =>
        /\ \A k \in evald :
              /\ RLt(RDiv(lam, RMul(Rat(k), mu)), One)
              /\ RLt(Zero, RSub(RMul(Rat(k), mu), lam))
        /\ \A d \in divs : RLt(Zero, d)
        /\ val.kind # "ZeroDivisionError"
        /\ ret.kind # "ZeroDivisionError"

\* the search skipped an unstable count and then evaluated a stable one
C4_Witness ==
    /\ fn \in {"main", "compute"}
    /\ m >= 2
    /\ 1 \notin evald
    /\ m \in evald

\* C5 (as amended): a value equal to r*(1+tol) is accepted and m returned; a
\* value equal to r*(1+2*tol) is rejected and the search continues, provided
\* 0 < tol < 1/2.
C5_ToleranceBoundary ==
    (fn \in {"main", "compute"} /\ IsNum(val)) =>
        /\ (val.val = RMul(r, RAdd(One, tol))) =>
               (pc = "done" /\ ret = Num(Rat(m)))
        /\ (/\ val.val = RMul(r, RAdd(One, RMul(Rat(2), tol)))
            /\ RLt(Zero, tol)
            /\ RLt(tol, <<1, 2>>)) =>
               (pc = "loop" /\ ret = NoValue)

\* C5 (as stated): the rejection at r*(1+2*tol) for every tol >= 0.
C5_ToleranceBoundary_Original ==
    (fn \in {"main", "compute"} /\ IsNum(val)) =>
        /\ (val.val = RMul(r, RAdd(One, tol))) =>
               (pc = "done" /\ ret = Num(Rat(m)))
        /\ (val.val = RMul(r, RAdd(One, RMul(Rat(2), tol)))) =>
               (pc = "loop" /\ ret = NoValue)

\* the search met a value equal to r*(1+2*tol) with 0 < tol < 1/2
C5_Witness ==
    /\ fn = "main" /\ IsNum(val)
    /\ val.val = RMul(r, RAdd(One, RMul(Rat(2), tol)))
    /\ RLt(Zero, tol) /\ RLt(tol, <<1, 2>>)
    /\ pc = "loop"

C7_P0Standard ==
    (/\ fn = "p0" /\ pc = "done"
     /\ RLt(lam, RMul(Rat(c), mu))) =>
        LET a == RDiv(lam, mu)
            cmu == RMul(Rat(c), mu)
            tail == RMul(RDiv(RPow(a, c), Rat(factorial(c))),
                         RDiv(cmu, RSub(cmu, lam)))
        IN  /\ IsNum(ret)
            /\ ret.val = RDiv(One, RAdd(pi0_loop(a, c), tail))
            /\ ret = pi0(lam, mu, c)

\* C8: a direct call of avgRespTime_MMC at utilization >= 1 never returns an
\* ordinary number.
C8_DomainError ==
    (/\ fn = "avgRespTime_MMC" /\ pc = "done"
     /\ RLe(One, RDiv(lam, RMul(Rat(c), mu)))) =>
        ret.kind # "num"

\* C9: for r < 1/mu no server count is accepted by the search: compute called
\* directly on such inputs never returns.
C9_InfeasibleSound ==
    (fn = "compute" /\ RLt(r, RDiv(One, mu))) => pc # "done"

\* C10: for 0 < lam/(c*mu) < 1 responseTimeCDF returns a value and raises no
\* error.
C10_CdfNoError ==
    (/\ fn = "responseTimeCDF" /\ pc = "done"
     /\ RLt(Zero, RDiv(lam, RMul(Rat(c), mu)))
     /\ RLt(RDiv(lam, RMul(Rat(c), mu)), One)) =>
        ret.kind \in {"num", "cdf"}

====
